---- MODULE Spec2Model ----
(***************************************************************************)
(* Model of the catalogue batch pipeline (src/main.py; src/aktuell.py is   *)
(* the German-language variant with the same control flow):                *)
(*   find_images_for_object  - image lookup in <base>/<year>/              *)
(*   generate_catalog_text   - request loop with rate-limit backoff        *)
(*   process_excel           - per-object batch loop                       *)
(* Strings are sequences of one-character strings so that splitting,       *)
(* prefix tests and lexicographic sorting are computed, not assumed.       *)
(***************************************************************************)
EXTENDS Integers, Sequences, FiniteSets, TLC

VARIABLES
    pc,           \* control point of the running function
    rows,         \* column t1 of the sliced row range (NaN = empty cell)
    max_objects,  \* process_excel's object cap
    fs,           \* image tree under base_folder: set of [year, names]
    max_images,   \* find_images_for_object's cap
    grouped,      \* group keys in the order df.groupby("t1") iterates them
    i,            \* enumerate() index of the object loop
    object_id,    \* identifier of the current object
    image_paths,  \* sequence returned by find_images_for_object
    results,      \* list of result records
    delays,       \* per finished object: the time.sleep(API_WAIT) it incurred
    lookups,      \* number of find_images_for_object calls made so far
    raised,       \* per finished object: did its processing raise an exception
    attempt,      \* loop variable of generate_catalog_text
    responses,    \* outcomes of the requests sent in the current call
    waits,        \* backoff sleeps performed in the current call, in order
    gen_result,   \* what generate_catalog_text returned / raised
    args,         \* arguments of a helper function called on its own
    ret           \* what that helper returned

vars == <<pc, rows, max_objects, fs, max_images, grouped, i, object_id,
          image_paths, results, delays, lookups, raised, attempt, responses,
          waits, gen_result, args, ret>>

-----------------------------------------------------------------------------
(* Program constants *)

MAX_IMAGES == 3
API_WAIT == 10
MAX_ATTEMPTS == 3
BACKOFF_UNIT == 5
YEAR_LEN == 4
base_folder == "Objektbilder"

(* Bounds of the model *)

MaxRows == 3
MaxObjectsCap == 3
MaxImagesCap == 4
MaxPad == 2

-----------------------------------------------------------------------------
(* Strings *)

\* The characters used, in code-point order (Python compares str by code point).
CharOrder ==
    <<" ", "-", ".", "/", "0", "1", "2", "3", "4", "5", "6", "7", "8", "9",
      "A", "B", "E", "G", "J", "K", "N", "P", "_",
      "a", "b", "c", "d", "e", "g", "j", "k", "n", "p", "t", "x">>

Ord == [c \in {CharOrder[k] : k \in DOMAIN CharOrder} |->
            CHOOSE k \in DOMAIN CharOrder : CharOrder[k] = c]

Digits == {"0", "1", "2", "3", "4", "5", "6", "7", "8", "9"}

LowerMap == [A |-> "a", B |-> "b", C |-> "c", E |-> "e", G |-> "g", J |-> "j",
             K |-> "k", N |-> "n", P |-> "p"]

\* str.lower()
Lower(s) == [k \in DOMAIN s |-> IF s[k] \in DOMAIN LowerMap THEN LowerMap[s[k]] ELSE s[k]]

\* str.startswith / str.endswith
StartsWith(s, p) == Len(p) <= Len(s) /\ SubSeq(s, 1, Len(p)) = p
EndsWith(s, e) == Len(e) <= Len(s) /\ SubSeq(s, Len(s) - Len(e) + 1, Len(s)) = e

\* str.isdigit(): non-empty and every character a digit
IsDigit(s) == Len(s) > 0 /\ \A k \in DOMAIN s : s[k] \in Digits

\* s < t on Python str: first differing character decides, a proper prefix is smaller
RECURSIVE StrLess(_, _)
StrLess(s, t) ==
    IF t = <<>> THEN FALSE
    ELSE IF s = <<>> THEN TRUE
    ELSE IF Head(s) # Head(t) THEN Ord[Head(s)] < Ord[Head(t)]
    ELSE StrLess(Tail(s), Tail(t))

StrLessEq(s, t) == s = t \/ StrLess(s, t)

\* sorted(S) for a collection of distinct strings
RECURSIVE Sorted(_)
Sorted(S) ==
    IF S = {} THEN <<>>
    ELSE LET m == CHOOSE x \in S : \A y \in S : StrLessEq(x, y)
         IN  <<m>> \o Sorted(S \ {m})

\* s.split(sep): the segments between occurrences of sep, empty ones included
RECURSIVE SplitAcc(_, _, _)
SplitAcc(s, sep, cur) ==
    IF s = <<>> THEN <<cur>>
    ELSE IF Head(s) = sep THEN <<cur>> \o SplitAcc(Tail(s), sep, <<>>)
    ELSE SplitAcc(Tail(s), sep, Append(cur, Head(s)))

Split(s, sep) == SplitAcc(s, sep, <<>>)

\* s.split(): whitespace-separated tokens, empty ones dropped
SplitWhitespace(s) == SelectSeq(Split(s, " "), LAMBDA tok : tok # <<>>)

\* s.replace(a, b) for single characters
Replace(s, a, b) == [k \in DOMAIN s |-> IF s[k] = a THEN b ELSE s[k]]

\* s.strip()
RECURSIVE LStrip(_)
LStrip(s) == IF s # <<>> /\ Head(s) = " " THEN LStrip(Tail(s)) ELSE s
RECURSIVE RStrip(_)
RStrip(s) == IF s # <<>> /\ s[Len(s)] = " " THEN RStrip(SubSeq(s, 1, Len(s) - 1)) ELSE s
Strip(s) == RStrip(LStrip(s))

Min(a, b) == IF a <= b THEN a ELSE b

\* seq[:n] for n >= 0
Take(seq, n) == SubSeq(seq, 1, Min(Len(seq), n))

-----------------------------------------------------------------------------
(* Identifiers and file names of the model's inputs *)

ID_A == <<"A", "K", "/", "2", "0", "1", "9", "/", "0", "0", "1">>
ID_B == <<"A", "K", "/", "2", "0", "1", "9", "/", "0", "0", "2">>
ID_SPEC == <<"A", "K", "/", "2", "0", "1", "9", "-", "0", "0", "1">>
ID_D == <<" ", "A", "K", "/", "2", "0", "2", "0", "/", "0", "0", "5">>
ID_WS == <<"A", "K", "/", "2", "0", "1", "9", "/", "0", "0", "1", " ", "x">>
ID_TWO == <<"2", "0", "2", "0", "/", "2", "0", "1", "9", "/", "0", "0", "1">>
F_a == <<"A", "K", "-", "2", "0", "1", "9", "-", "0", "0", "1", "_", "a", ".", "j", "p", "g">>
F_b == <<"A", "K", "-", "2", "0", "1", "9", "-", "0", "0", "1", "_", "b", ".", "j", "p", "g">>
F_c == <<"A", "K", "-", "2", "0", "1", "9", "-", "0", "0", "1", "_", "c", ".", "j", "p", "g">>
F_d == <<"A", "K", "-", "2", "0", "1", "9", "-", "0", "0", "1", "_", "d", ".", "j", "p", "g">>
F_UP == <<"A", "K", "-", "2", "0", "1", "9", "-", "0", "0", "1", "_", "B", ".", "J", "P", "G">>
F_txt == <<"A", "K", "-", "2", "0", "1", "9", "-", "0", "0", "1", "_", "a", ".", "t", "x", "t">>
F_002 == <<"A", "K", "-", "2", "0", "1", "9", "-", "0", "0", "2", "_", "a", ".", "p", "n", "g">>
F_jpeg == <<"A", "K", "-", "2", "0", "1", "9", "-", "0", "0", "1", ".", "j", "p", "e", "g">>
F_005 == <<"A", "K", "-", "2", "0", "2", "0", "-", "0", "0", "5", "_", "a", ".", "p", "n", "g">>
F_2020 == <<"2", "0", "2", "0", "-", "2", "0", "1", "9", "-", "0", "0", "1", ".", "p", "n", "g">>
Y2019 == <<"2", "0", "1", "9">>
Y2020 == <<"2", "0", "2", "0">>

NaN == <<"n", "a", "n", "?">>

Identifiers == {ID_A, ID_B, ID_SPEC, ID_D, ID_WS, ID_TWO}
CandidateFiles == {F_a, F_b, F_c, F_d, F_UP, F_txt, F_002, F_jpeg}
FourFiles == {F_a, F_b, F_c, F_d}

-----------------------------------------------------------------------------
(* find_images_for_object *)

IMAGE_EXTENSIONS ==
    { <<".", "j", "p", "g">>, <<".", "j", "p", "e", "g">>, <<".", "p", "n", "g">> }

None == <<"N", "o", "n", "e", "?">>

\* Faulty variant: the year is read off the start of a segment ("2019-001" gives 2019)
YearOf_LeadingDigits(oid) ==
    LET segs == SelectSeq(Split(oid, "/"),
                          LAMBDA p : Len(p) >= YEAR_LEN /\ IsDigit(SubSeq(p, 1, YEAR_LEN)))
    IN  IF segs = <<>> THEN None ELSE SubSeq(segs[1], 1, YEAR_LEN)

\* next((p for p in object_id.split("/") if p.isdigit() and len(p) == 4), None)
YearOf(oid) ==
    LET segs == SelectSeq(Split(oid, "/"), LAMBDA p : IsDigit(p) /\ Len(p) = YEAR_LEN)
    IN  IF segs = <<>> THEN None ELSE segs[1]

\* os.path.exists(folder) and os.listdir(folder) for folder = <base>/<year>
FolderExists(tree, year) == \E d \in tree : d.year = year
ListDir(tree, year) == (CHOOSE d \in tree : d.year = year).names

\* object_id.replace("/", "-").split()[0]
PrefixOf(oid) == SplitWhitespace(Replace(oid, "/", "-"))[1]

IsImageName(f) == \E e \in IMAGE_EXTENSIONS : EndsWith(Lower(f), e)

\* s[::-1]
Reverse(seq) == [k \in DOMAIN seq |-> seq[Len(seq) + 1 - k]]

\* Faulty variant: the matches are sorted in descending order
Matches_Descending(tree, oid) ==
    LET prefix == PrefixOf(oid)
        candidates == {f \in ListDir(tree, YearOf(oid)) : IsImageName(f)}
    IN  Reverse(Sorted({f \in candidates : StartsWith(f, prefix)}))

\* sorted([f for f in candidates if f.startswith(prefix)])
Matches(tree, oid) ==
    LET prefix == PrefixOf(oid)
        candidates == {f \in ListDir(tree, YearOf(oid)) : IsImageName(f)}
    IN  Sorted({f \in candidates : StartsWith(f, prefix)})

\* os.path.join(os.path.join(base_folder, year), f)
PathJoin(year, f) == [base |-> base_folder, year |-> year, name |-> f]

\* os.path.basename
Basename(p) == p.name

Truncate(matches, n) == Take(matches, n)

FindImagesForObject(tree, oid, cap) ==
    LET year == YearOf(oid)
    IN  IF year = None THEN <<>>
        ELSE IF ~FolderExists(tree, year) THEN <<>>
        ELSE LET kept == Truncate(Matches(tree, oid), cap)
             IN  [k \in DOMAIN kept |-> PathJoin(year, kept[k])]

-----------------------------------------------------------------------------
(* Result records and the strings generate_catalog_text returns *)

TEXT == "generated text"
ERR_API == "Error: API error"
ERR_CONNECTION == "Error: Connection error"
ERR_ABORTED == "Error: Aborted after too many failed attempts"
ERR_NO_IMAGE == "Error: No valid image found"
ERR_PROCESSING == "Error: Processing error"
Idle == "-"

\* Images is the list of base names that the code joins with ", ".
Record(oid, images, description) ==
    [Source |-> "excel", ObjectID |-> oid, Images |-> images, Description |-> description]

Basenames(paths) == [k \in DOMAIN paths |-> Basename(paths[k])]

\* The non-empty keys of r in the order of their first appearance
RECURSIVE FirstSeenAcc(_, _)
FirstSeenAcc(r, seen) ==
    IF r = <<>> THEN seen
    ELSE IF Head(r) = NaN \/ (\E k \in DOMAIN seen : seen[k] = Head(r))
         THEN FirstSeenAcc(Tail(r), seen)
    ELSE FirstSeenAcc(Tail(r), Append(seen, Head(r)))

FirstSeen(r) == FirstSeenAcc(r, <<>>)

\* Faulty variant: groupby(sort=False), keys iterate in first-seen order
GroupKeys_FirstSeen(r) == FirstSeen(r)

\* df.groupby("t1"): rows with an empty key are dropped, keys iterate in sorted order
GroupKeys(r) == Sorted({r[k] : k \in DOMAIN r} \ {NaN})

\* Outcomes of requests.post + raise_for_status + response.json()[...]
Outcomes == {"ok", "rate_limit", "http_error", "network", "bad_body"}

\* Faulty variant: the wait does not grow with the attempt number
BackoffWait_Flat(a) == BACKOFF_UNIT

\* wait = 5 * (attempt + 1)
BackoffWait(a) == BACKOFF_UNIT * (a + 1)

\* Faulty variant: the loop runs one iteration more
MoreAttempts_OneMore(a) == a + 1 < MAX_ATTEMPTS + 1

\* for attempt in range(3): is there another iteration after `a`?
MoreAttempts(a) == a + 1 < MAX_ATTEMPTS

\* Faulty variant: every HTTP error is retried, whatever its status
IsRetried_AnyHttpError(outcome) == outcome \in {"rate_limit", "http_error"}

\* what the HTTPError / RequestException handlers do with a failed request
IsRetried(outcome) == outcome = "rate_limit"

-----------------------------------------------------------------------------
(* Inputs *)

Keys == {ID_A, ID_SPEC, ID_D}
Cells == Keys \cup {NaN}
RowRanges == UNION {[1..n -> Cells] : n \in 0..MaxRows}

BatchTree ==
    {[year |-> Y2019, names |-> FourFiles \cup {F_txt}], [year |-> Y2020, names |-> {F_005}]}

LocateTrees ==
    {{}} \cup {{[year |-> Y2019, names |-> S]} : S \in SUBSET CandidateFiles}
         \cup {{[year |-> Y2019, names |-> FourFiles], [year |-> Y2020, names |-> {F_2020, F_005}]}}

-----------------------------------------------------------------------------
(* process_excel *)

GenLocalsIdle ==
    /\ attempt = 0
    /\ responses = <<>>
    /\ waits = <<>>
    /\ gen_result = Idle

DropGenLocals ==
    /\ attempt' = 0
    /\ responses' = <<>>
    /\ waits' = <<>>
    /\ gen_result' = Idle

Init ==
    /\ pc = "start"
    /\ rows \in RowRanges
    /\ max_objects \in 0..MaxObjectsCap
    /\ fs = BatchTree
    /\ max_images = MAX_IMAGES
    /\ grouped = <<>>
    /\ i = 0
    /\ object_id = <<>>
    /\ image_paths = <<>>
    /\ results = <<>>
    /\ delays = <<>>
    /\ lookups = 0
    /\ raised = <<>>
    /\ args = <<>>
    /\ ret = <<>>
    /\ GenLocalsIdle

\* grouped = df.groupby("t1"); results = []
GroupRows ==
    /\ pc = "start"
    /\ grouped' = GroupKeys(rows)
    /\ results' = <<>>
    /\ pc' = "loop"
    /\ UNCHANGED <<args, ret, raised, rows, max_objects, fs, max_images, i, object_id, image_paths,
                   delays, lookups, attempt, responses, waits, gen_result>>

\* Faulty variant: the cap test is off by one
CapReached_OffByOne(idx, cap) == idx > cap

\* if i >= max_objects: break
CapReached(idx, cap) == idx >= cap

\* the loop ends: groups exhausted, or the cap is reached
LoopExit ==
    /\ pc = "loop"
    /\ (i >= Len(grouped) \/ CapReached(i, max_objects))
    /\ pc' = "done"
    /\ UNCHANGED <<args, ret, raised, rows, max_objects, fs, max_images, grouped, i, object_id,
                   image_paths, results, delays, lookups, attempt, responses,
                   waits, gen_result>>

\* next (object_id, group) of enumerate(grouped); object_id = str(object_id).strip()
NextObject ==
    /\ pc = "loop"
    /\ i < Len(grouped)
    /\ ~CapReached(i, max_objects)
    /\ object_id' = Strip(grouped[i + 1])
    /\ image_paths' = <<>>
    /\ pc' = "locate"
    /\ UNCHANGED <<args, ret, raised, rows, max_objects, fs, max_images, grouped, i, results, delays,
                   lookups, attempt, responses, waits, gen_result>>

\* Faulty variant: the `if not image_paths` branch is missing
Locate_NoEmptyCheck ==
    /\ pc = "locate"
    /\ lookups' = lookups + 1
    /\ image_paths' = FindImagesForObject(fs, object_id, max_images)
    /\ pc' = "prompt"
    /\ UNCHANGED <<args, ret, raised, rows, max_objects, fs, max_images, grouped, i, object_id,
                   results, delays, attempt, responses, waits, gen_result>>

\* image_paths = find_images_for_object(...); `if not image_paths` branches
Locate ==
    /\ pc = "locate"
    /\ lookups' = lookups + 1
    /\ image_paths' = FindImagesForObject(fs, object_id, max_images)
    /\ pc' = IF image_paths' = <<>> THEN "skip" ELSE "prompt"
    /\ UNCHANGED <<args, ret, raised, rows, max_objects, fs, max_images, grouped, i, object_id,
                   results, delays, attempt, responses, waits, gen_result>>

\* find_images_for_object raises (e.g. os.listdir fails)
LocateRaises ==
    /\ pc = "locate"
    /\ lookups' = lookups + 1
    /\ pc' = "except"
    /\ UNCHANGED <<args, ret, raised, rows, max_objects, fs, max_images, grouped, i, object_id,
                   image_paths, results, delays, attempt, responses, waits,
                   gen_result>>

\* no image: append the placeholder record and `continue` (no sleep)
SkipObject ==
    /\ pc = "skip"
    /\ results' = Append(results, Record(object_id, <<>>, ERR_NO_IMAGE))
    /\ delays' = Append(delays, 0)
    /\ i' = i + 1
    /\ pc' = "loop"
    /\ raised' = Append(raised, FALSE)
    /\ UNCHANGED <<args, ret, rows, max_objects, fs, max_images, grouped, object_id,
                   image_paths, lookups, attempt, responses, waits, gen_result>>

\* prompt = build_prompt(first_row, image_paths, object_id)
BuildPrompt ==
    /\ pc = "prompt"
    /\ pc' = "encode"
    /\ UNCHANGED <<args, ret, raised, rows, max_objects, fs, max_images, grouped, i, object_id,
                   image_paths, results, delays, lookups, attempt, responses,
                   waits, gen_result>>

BuildPromptRaises ==
    /\ pc = "prompt"
    /\ pc' = "except"
    /\ UNCHANGED <<args, ret, raised, rows, max_objects, fs, max_images, grouped, i, object_id,
                   image_paths, results, delays, lookups, attempt, responses,
                   waits, gen_result>>

\* generate_catalog_text: encode the images, build the payload, enter the loop
EncodeImages ==
    /\ pc = "encode"
    /\ attempt' = 0
    /\ responses' = <<>>
    /\ waits' = <<>>
    /\ gen_result' = Idle
    /\ pc' = "request"
    /\ UNCHANGED <<args, ret, raised, rows, max_objects, fs, max_images, grouped, i, object_id,
                   image_paths, results, delays, lookups>>

\* encode_image raises (the file cannot be read)
EncodeRaises ==
    /\ pc = "encode"
    /\ pc' = "except"
    /\ UNCHANGED <<args, ret, raised, rows, max_objects, fs, max_images, grouped, i, object_id,
                   image_paths, results, delays, lookups, attempt, responses,
                   waits, gen_result>>

\* one iteration of the try block: post, raise_for_status, read the content
Request ==
    /\ pc = "request"
    /\ \E outcome \in Outcomes :
        /\ responses' = Append(responses, outcome)
        /\ IF outcome = "ok"
             THEN gen_result' = TEXT /\ pc' = "gen_return"
           ELSE IF outcome = "bad_body"
             THEN gen_result' = gen_result /\ pc' = "except"
           ELSE IF outcome = "network"
             THEN gen_result' = ERR_CONNECTION /\ pc' = "gen_return"
           ELSE IF IsRetried(outcome)
             THEN gen_result' = gen_result /\ pc' = "backoff"
           ELSE gen_result' = ERR_API /\ pc' = "gen_return"
    /\ UNCHANGED <<args, ret, raised, rows, max_objects, fs, max_images, grouped, i, object_id,
                   image_paths, results, delays, lookups, attempt, waits>>

\* Faulty variant: no sleep after the rate-limit response of the last attempt
Backoff_NoWaitOnLast ==
    /\ pc = "backoff"
    /\ waits' = (IF MoreAttempts(attempt) THEN Append(waits, BackoffWait(attempt)) ELSE waits)
    /\ attempt' = attempt + 1
    /\ pc' = IF MoreAttempts(attempt) THEN "request" ELSE "exhausted"
    /\ UNCHANGED <<args, ret, raised, rows, max_objects, fs, max_images, grouped, i, object_id,
                   image_paths, results, delays, lookups, responses, gen_result>>

\* status == 429: time.sleep(5 * (attempt + 1)); continue
Backoff ==
    /\ pc = "backoff"
    /\ waits' = Append(waits, BackoffWait(attempt))
    /\ attempt' = attempt + 1
    /\ pc' = IF MoreAttempts(attempt) THEN "request" ELSE "exhausted"
    /\ UNCHANGED <<args, ret, raised, rows, max_objects, fs, max_images, grouped, i, object_id,
                   image_paths, results, delays, lookups, responses, gen_result>>

\* the for loop ran out: return "Error: Aborted after too many failed attempts"
Exhausted ==
    /\ pc = "exhausted"
    /\ gen_result' = ERR_ABORTED
    /\ pc' = "gen_return"
    /\ UNCHANGED <<args, ret, raised, rows, max_objects, fs, max_images, grouped, i, object_id,
                   image_paths, results, delays, lookups, attempt, responses, waits>>

\* catalog_text = generate_catalog_text(...); results.append({...})
AppendResult ==
    /\ pc = "gen_return"
    /\ results' = Append(results, Record(object_id, Basenames(image_paths), gen_result))
    /\ DropGenLocals
    /\ pc' = "sleep"
    /\ UNCHANGED <<args, ret, raised, rows, max_objects, fs, max_images, grouped, i, object_id,
                   image_paths, delays, lookups>>

\* time.sleep(API_WAIT); pbar.update(1)
Sleep ==
    /\ pc = "sleep"
    /\ delays' = Append(delays, API_WAIT)
    /\ i' = i + 1
    /\ pc' = "loop"
    /\ raised' = Append(raised, FALSE)
    /\ UNCHANGED <<args, ret, rows, max_objects, fs, max_images, grouped, object_id,
                   image_paths, results, lookups, attempt, responses, waits,
                   gen_result>>

\* Faulty variant: an exception ends the batch
HandleException_Aborts ==
    /\ pc = "except"
    /\ raised' = Append(raised, TRUE)
    /\ DropGenLocals
    /\ pc' = "done"
    /\ UNCHANGED <<args, ret, rows, max_objects, fs, max_images, grouped, i, object_id,
                   image_paths, results, delays, lookups>>

\* Faulty variant: the pacing sleep also runs after an exception (as in a finally block)
HandleException_Sleeps ==
    /\ pc = "except"
    /\ results' = Append(results, Record(object_id, <<>>, ERR_PROCESSING))
    /\ delays' = Append(delays, API_WAIT)
    /\ raised' = Append(raised, TRUE)
    /\ DropGenLocals
    /\ i' = i + 1
    /\ pc' = "loop"
    /\ UNCHANGED <<args, ret, rows, max_objects, fs, max_images, grouped, object_id,
                   image_paths, lookups>>

\* except Exception as e: append the error record (no sleep); pbar.update(1)
HandleException ==
    /\ pc = "except"
    /\ results' = Append(results, Record(object_id, <<>>, ERR_PROCESSING))
    /\ delays' = Append(delays, 0)
    /\ DropGenLocals
    /\ i' = i + 1
    /\ pc' = "loop"
    /\ raised' = Append(raised, TRUE)
    /\ UNCHANGED <<args, ret, rows, max_objects, fs, max_images, grouped, object_id,
                   image_paths, lookups>>

Next ==
    \/ GroupRows
    \/ LoopExit
    \/ NextObject
    \/ Locate
    \/ LocateRaises
    \/ SkipObject
    \/ BuildPrompt
    \/ BuildPromptRaises
    \/ EncodeImages
    \/ EncodeRaises
    \/ Request
    \/ Backoff
    \/ Exhausted
    \/ AppendResult
    \/ Sleep
    \/ HandleException

Spec == Init /\ [][Next]_vars

-----------------------------------------------------------------------------
(* find_images_for_object called on its own, over all modelled inputs *)

LocateInit ==
    /\ pc = "call_locate"
    /\ object_id \in Identifiers
    /\ fs \in LocateTrees
    /\ max_images \in 0..MaxImagesCap
    /\ rows = <<>>
    /\ max_objects = 0
    /\ grouped = <<>>
    /\ i = 0
    /\ image_paths = <<>>
    /\ results = <<>>
    /\ delays = <<>>
    /\ lookups = 0
    /\ raised = <<>>
    /\ args = <<>>
    /\ ret = <<>>
    /\ GenLocalsIdle

FindImagesCall ==
    /\ pc = "call_locate"
    /\ image_paths' = FindImagesForObject(fs, object_id, max_images)
    /\ lookups' = lookups + 1
    /\ pc' = "located"
    /\ UNCHANGED <<args, ret, raised, rows, max_objects, fs, max_images, grouped, i, object_id,
                   results, delays, attempt, responses, waits, gen_result>>

LocateNext == FindImagesCall

LocateSpec == LocateInit /\ [][LocateNext]_vars

-----------------------------------------------------------------------------
(* build_list_sentences *)

\* The missing sentinel
EMPTY_CELL == <<"E", "m", "p", "t", "y", " ", "C", "e", "l", "l">>

SEPARATOR == <<";", " ">>
DE_MANUFACTURER == <<"H", "e", "r", "s", "t", "e", "l", "l", "e", "r", ":", " ">>
DE_MATERIAL == <<"M", "a", "t", "e", "r", "i", "a", "l", ":", " ">>
DE_DIMENSIONS == <<"M", "a", "ß", "e", ":", " ">>
DE_YEAR == <<"J", "a", "h", "r", ":", " ">>
EN_MANUFACTURER == <<"M", "a", "n", "u", "f", "a", "c", "t", "u", "r", "e", "r", ":", " ">>
EN_MATERIAL == <<"M", "a", "t", "e", "r", "i", "a", "l", ":", " ">>
EN_DIMENSIONS == <<"D", "i", "m", "e", "n", "s", "i", "o", "n", "s", ":", " ">>
EN_YEAR == <<"Y", "e", "a", "r", ":", " ">>

\* Faulty variant: the parts are joined without the separator
RECURSIVE JoinParts_NoSeparator(_, _)
JoinParts_NoSeparator(parts, sep) ==
    IF parts = <<>> THEN <<>>
    ELSE parts[1] \o JoinParts_NoSeparator(Tail(parts), sep)

\* sep.join(parts)
RECURSIVE JoinParts(_, _)
JoinParts(parts, sep) ==
    IF parts = <<>> THEN <<>>
    ELSE IF Len(parts) = 1 THEN parts[1]
    ELSE parts[1] \o sep \o JoinParts(Tail(parts), sep)

\* if value != "Empty Cell": parts.append(f"<label>{value}")
AppendClause(parts, label, value) ==
    IF value # EMPTY_CELL THEN Append(parts, label \o value) ELSE parts

BuildListSentences(manufacturer, material, dimensions, year) ==
    LET de1 == AppendClause(<<>>, DE_MANUFACTURER, manufacturer)
        en1 == AppendClause(<<>>, EN_MANUFACTURER, manufacturer)
        de2 == AppendClause(de1, DE_MATERIAL, material)
        en2 == AppendClause(en1, EN_MATERIAL, material)
        de3 == AppendClause(de2, DE_DIMENSIONS, dimensions)
        en3 == AppendClause(en2, EN_DIMENSIONS, dimensions)
        de4 == AppendClause(de3, DE_YEAR, year)
        en4 == AppendClause(en3, EN_YEAR, year)
    IN  [de |-> JoinParts(de4, SEPARATOR), en |-> JoinParts(en4, SEPARATOR)]

V_ACME == <<"A", "c", "m", "e">>
V_DIMS == <<"1", "0", "x", "2", "0", "c", "m">>
V_STEEL == <<"S", "t", "a", "h", "l", ";", " ", "H", "o", "l", "z">>
V_1925 == <<"1", "9", "2", "5">>

FieldValues == {EMPTY_CELL, V_ACME, V_DIMS, V_STEEL, V_1925}

SentencesInit ==
    /\ pc = "call_sentences"
    /\ args \in [manufacturer : FieldValues, material : FieldValues,
                  dimensions : FieldValues, year : FieldValues]
    /\ ret = <<>>
    /\ rows = <<>>
    /\ max_objects = 0
    /\ fs = {}
    /\ max_images = MAX_IMAGES
    /\ grouped = <<>>
    /\ i = 0
    /\ object_id = <<>>
    /\ image_paths = <<>>
    /\ results = <<>>
    /\ delays = <<>>
    /\ lookups = 0
    /\ raised = <<>>
    /\ GenLocalsIdle

BuildListSentencesCall ==
    /\ pc = "call_sentences"
    /\ ret' = BuildListSentences(args.manufacturer, args.material, args.dimensions, args.year)
    /\ pc' = "sentences_built"
    /\ UNCHANGED <<args, rows, max_objects, fs, max_images, grouped, i, object_id,
                   image_paths, results, delays, lookups, raised, attempt, responses,
                   waits, gen_result>>

SentencesNext == BuildListSentencesCall

SentencesSpec == SentencesInit /\ [][SentencesNext]_vars

-----------------------------------------------------------------------------
(* safe_value *)

NAN_TOKEN == <<"n", "a", "n">>

\* Cell values: None, a str, the float NaN of an empty cell, a number, and an
\* object whose __str__ raises
NoneValue == [kind |-> "none", text |-> <<>>]
FloatNaN == [kind |-> "float_nan", text |-> <<>>]
Unprintable == [kind |-> "unprintable", text |-> <<>>]
StrValue(s) == [kind |-> "str", text |-> s]
NumberValue(digits) == [kind |-> "number", text |-> digits]

\* str(val), for the values on which it returns
StrOf(val) == IF val.kind = "float_nan" THEN NAN_TOKEN ELSE val.text

\* Faulty variant: the comparison with "nan" is case-sensitive
SafeValue_CaseSensitive(val) ==
    IF val.kind = "none" THEN EMPTY_CELL
    ELSE IF val.kind = "unprintable" THEN EMPTY_CELL
    ELSE LET s == Strip(StrOf(val))
         IN  IF s = <<>> \/ s = NAN_TOKEN THEN EMPTY_CELL ELSE s

SafeValue(val) ==
    IF val.kind = "none" THEN EMPTY_CELL
    ELSE IF val.kind = "unprintable" THEN EMPTY_CELL
    ELSE LET s == Strip(StrOf(val))
         IN  IF s = <<>> \/ Lower(s) = NAN_TOKEN THEN EMPTY_CELL ELSE s

C_NaN == <<"N", "a", "N">>
C_NAN == <<"N", "A", "N">>
C_nano == <<"n", "a", "n", "o">>
C_n_an == <<"n", " ", "a", "n">>
C_a_b == <<"A", "c", "m", "e", " ", "A", "G">>

\* n spaces
Pad(n) == [k \in 1..n |-> " "]

CoreTexts == {<<>>, NAN_TOKEN, C_NaN, C_NAN, C_nano, C_n_an, C_a_b, V_ACME, V_1925, EMPTY_CELL}

CellTexts == {Pad(a) \o c \o Pad(b) : a \in 0..MaxPad, b \in 0..MaxPad, c \in CoreTexts}

CellValues ==
    {NoneValue, FloatNaN, Unprintable, NumberValue(V_1925)} \cup {StrValue(t) : t \in CellTexts}

NormalizeInit ==
    /\ pc = "call_safe_value"
    /\ args \in CellValues
    /\ ret = <<>>
    /\ rows = <<>>
    /\ max_objects = 0
    /\ fs = {}
    /\ max_images = MAX_IMAGES
    /\ grouped = <<>>
    /\ i = 0
    /\ object_id = <<>>
    /\ image_paths = <<>>
    /\ results = <<>>
    /\ delays = <<>>
    /\ lookups = 0
    /\ raised = <<>>
    /\ GenLocalsIdle

\* y = safe_value(x)
SafeValueCall ==
    /\ pc = "call_safe_value"
    /\ ret' = <<SafeValue(args)>>
    /\ pc' = "normalized"
    /\ UNCHANGED <<args, rows, max_objects, fs, max_images, grouped, i, object_id,
                   image_paths, results, delays, lookups, raised, attempt, responses,
                   waits, gen_result>>

\* z = safe_value(y)
SafeValueAgain ==
    /\ pc = "normalized"
    /\ ret' = Append(ret, SafeValue(StrValue(ret[1])))
    /\ pc' = "renormalized"
    /\ UNCHANGED <<args, rows, max_objects, fs, max_images, grouped, i, object_id,
                   image_paths, results, delays, lookups, raised, attempt, responses,
                   waits, gen_result>>

NormalizeNext == SafeValueCall \/ SafeValueAgain

NormalizeSpec == NormalizeInit /\ [][NormalizeNext]_vars

-----------------------------------------------------------------------------
(* Properties *)

\* The distinct identifiers of the row range (empty cells are no identifier)
DistinctIds == {rows[k] : k \in DOMAIN rows} \ {NaN}

\* The number of objects within the cap
ObjectsWithinCap == Min(max_objects, Cardinality(DistinctIds))

\* What the image locator returns for the k-th object of the batch
LocatedFor(k) == FindImagesForObject(fs, Strip(grouped[k]), MAX_IMAGES)

\* The strings generate_catalog_text can return
GenStrings == {TEXT, ERR_API, ERR_CONNECTION, ERR_ABORTED}

RateLimited(k) == k \in DOMAIN responses /\ responses[k] = "rate_limit"

\* C1: an exception raised while processing an object (image lookup, prompt
\* building, generation call) does not abort the batch: every object within
\* the cap yields exactly one record, the record of a raising object carries
\* the error marker and an empty image list, and every other record carries
\* its normal content.
C1_FailureIsolation ==
    /\ Len(raised) <= Len(results)
    /\ (pc \in {"loop", "done"} => Len(results) = i /\ Len(raised) = i)
    /\ (pc = "done" => Len(results) = ObjectsWithinCap)
    /\ \A k \in DOMAIN raised :
        /\ results[k].ObjectID = Strip(grouped[k])
        /\ raised[k] =>
            /\ results[k].Images = <<>>
            /\ results[k].Description = ERR_PROCESSING
        /\ ~raised[k] =>
            LET located == LocatedFor(k)
            IN  IF located = <<>>
                THEN results[k].Images = <<>> /\ results[k].Description = ERR_NO_IMAGE
                ELSE /\ results[k].Images = Basenames(located)
                     /\ results[k].Description \in GenStrings

\* C1 witness: three objects, the second raised, the first and third carry text
C1_Witness ==
    /\ pc = "done"
    /\ raised = <<FALSE, TRUE, FALSE>>
    /\ Len(results) = 3
    /\ results[1].Description = TEXT
    /\ results[2].Description = ERR_PROCESSING
    /\ results[3].Description = TEXT

\* C2: one call of generate_catalog_text sends at most 3 requests; when the
\* first three responses are all rate-limit responses the call returns the
\* "aborted after too many attempts" string and no fourth request is made.
C2_AtMostThreeRequests ==
    /\ Len(responses) <= 3
    /\ (RateLimited(1) /\ RateLimited(2) /\ RateLimited(3)) =>
        /\ Len(responses) = 3
        /\ pc \in {"backoff", "exhausted", "gen_return"}
        /\ (pc = "gen_return" => gen_result = ERR_ABORTED)
    /\ (gen_result = ERR_ABORTED => RateLimited(1) /\ RateLimited(2) /\ RateLimited(3))

\* C2 witness: the call returns after three rate-limit responses
C2_Witness ==
    /\ pc = "gen_return"
    /\ responses = <<"rate_limit", "rate_limit", "rate_limit">>
    /\ gen_result = ERR_ABORTED

\* C3: a rate-limit response on attempt k (1-based) is followed by a wait of
\* 5*k and, while attempts remain, by a retry; two rate-limit responses and a
\* success on the third attempt return the success text after exactly the
\* waits 5 and 10, in that order.
C3_LinearBackoff ==
    /\ Len(waits) <= Len(responses)
    /\ \A k \in DOMAIN waits : waits[k] = 5 * k /\ RateLimited(k)
    /\ \A k \in DOMAIN responses :
        RateLimited(k) => (k \in DOMAIN waits \/ (k = Len(responses) /\ pc = "backoff"))
    /\ \A k \in 1..2 :
        (Len(responses) = k /\ RateLimited(k) /\ Len(waits) = k) =>
            pc = "request" /\ attempt = k
    /\ (pc = "gen_return" /\ responses = <<"rate_limit", "rate_limit", "ok">>) =>
            gen_result = TEXT /\ waits = <<5, 10>>

\* C3 witness: success on the third attempt after two rate-limit responses
C3_Witness ==
    /\ pc = "gen_return"
    /\ responses = <<"rate_limit", "rate_limit", "ok">>
    /\ waits = <<5, 10>>
    /\ gen_result = TEXT

\* C4: a request failure other than a rate-limit response (network failure,
\* HTTP error with another status) ends the call at once: an error-tagged
\* string is returned, nothing is raised, no further request is sent and no
\* wait is performed.
C4_OtherFailuresReturnAtOnce ==
    \A k \in DOMAIN responses :
        responses[k] \in {"network", "http_error"} =>
            /\ k = Len(responses)
            /\ pc = "gen_return"
            /\ gen_result = (IF responses[k] = "network" THEN ERR_CONNECTION ELSE ERR_API)
            /\ Len(waits) = k - 1

\* C4 witness: an HTTP 500 on the second attempt, after one rate-limit response
C4_Witness ==
    /\ pc = "gen_return"
    /\ responses = <<"rate_limit", "http_error">>
    /\ waits = <<5>>
    /\ gen_result = ERR_API

\* Control points inside generate_catalog_text
GenPcs == {"request", "backoff", "exhausted", "gen_return"}

\* C5: an object for which the image locator returns an empty sequence gets
\* the record with an empty image list and the "no valid image found"
\* description, and no generation request is attempted for it; a request is
\* only ever sent for an object with at least one located image.
C5_NoImageSkipsGeneration ==
    /\ (pc = "skip" =>
            /\ image_paths = <<>>
            /\ FindImagesForObject(fs, object_id, MAX_IMAGES) = <<>>
            /\ responses = <<>>)
    /\ ((pc \in GenPcs \/ responses # <<>>) => image_paths # <<>>)
    /\ (pc \in {"prompt", "encode"} =>
            image_paths = FindImagesForObject(fs, object_id, MAX_IMAGES))
    /\ Len(raised) <= Len(results)
    /\ \A k \in DOMAIN raised :
        (~raised[k] /\ LocatedFor(k) = <<>>) =>
            /\ results[k] = Record(Strip(grouped[k]), <<>>, ERR_NO_IMAGE)
            /\ delays[k] = 0

\* C5 witness: a finished batch holding a placeholder record next to a generated one
C5_Witness ==
    /\ pc = "done"
    /\ Len(results) = 2
    /\ results[1] = Record(ID_SPEC, <<>>, ERR_NO_IMAGE)
    /\ results[2].Description = TEXT

\* Finished objects: their record, delay and outcome are all written
Finished == 1..Len(raised)

\* C6 as stated: the 10-unit delay follows exactly the successfully processed
\* objects; none follows a skipped object or one whose processing did not succeed.
C6_Original ==
    /\ Len(raised) <= Len(results)
    /\ \A k \in Finished :
        delays[k] = (IF results[k].Description = TEXT THEN 10 ELSE 0)

\* C6 amended: the 10-unit delay follows exactly the objects for which
\* generate_catalog_text returned, be it the text or an error-tagged string,
\* and precedes the start of the next object; none follows a skipped object
\* or one whose processing raised an exception.
C6_DelayAfterGeneration ==
    /\ Len(raised) <= Len(results)
    /\ Len(delays) = Len(raised)
    /\ \A k \in Finished :
        delays[k] = (IF ~raised[k] /\ LocatedFor(k) # <<>> THEN 10 ELSE 0)
    /\ \A k \in Finished :
        (results[k].Description \in GenStrings) = (delays[k] = 10)
    /\ (pc \in {"locate", "skip", "prompt", "encode", "except"} \cup GenPcs =>
            Len(delays) = i /\ Len(results) = i)
    /\ (pc = "sleep" => Len(results) = i + 1 /\ Len(delays) = i)

\* C6 witness: a delay after an object whose generation returned an error
\* string, none after a skipped object and none after an exception
C6_Witness ==
    /\ pc = "done"
    /\ Len(results) = 3
    /\ results[1].Description = ERR_API /\ delays[1] = 10
    /\ results[2].Description = ERR_NO_IMAGE /\ delays[2] = 0
    /\ results[3].Description = ERR_PROCESSING /\ delays[3] = 0

\* The identifiers of the records, in order
ResultIds == [k \in DOMAIN results |-> results[k].ObjectID]

StripAll(keys) == [k \in DOMAIN keys |-> Strip(keys[k])]

\* C7 as stated: objects are processed, capped and emitted in the order in
\* which their identifier first appears in the row range.
C7_Original ==
    pc = "done" => ResultIds = Take(StripAll(FirstSeen(rows)), max_objects)

\* C7 amended: rows with an empty identifier are dropped and objects are
\* processed, capped and emitted in ascending (code-point) order of their
\* identifier as written in the grouping column, not in first-seen order.
C7_SortedKeyOrder ==
    pc # "start" =>
        /\ {grouped[k] : k \in DOMAIN grouped} = DistinctIds
        /\ \A a, b \in DOMAIN grouped : a < b => StrLess(grouped[a], grouped[b])
        /\ Len(results) <= Len(grouped)
        /\ \A k \in DOMAIN results : results[k].ObjectID = Strip(grouped[k])
        /\ (pc = "done" => Len(results) = Min(max_objects, Len(grouped)))

\* C7 witness: the later row's identifier is emitted first
C7_Witness ==
    /\ pc = "done"
    /\ rows = <<ID_A, ID_SPEC>>
    /\ ResultIds = <<ID_SPEC, ID_A>>

\* Control points at which an object is being processed
ObjectPcs == {"locate", "skip", "prompt", "encode", "except", "sleep"} \cup GenPcs

\* C9: process_excel returns exactly min(max_objects, number of distinct
\* identifiers) records, one per processed object, and no image lookup,
\* generation request or delay happens for an object beyond the cap.
C9_CapOnObjects ==
    /\ (pc = "done" => Len(results) = ObjectsWithinCap)
    /\ Len(results) <= ObjectsWithinCap
    /\ lookups <= ObjectsWithinCap
    /\ Len(delays) <= ObjectsWithinCap
    /\ (pc \in ObjectPcs => i < max_objects /\ i < Cardinality(DistinctIds))
    /\ (pc \in {"loop", "done"} => lookups = i /\ Len(results) = i)
    /\ (pc # "start" => \A k \in DOMAIN results : results[k].ObjectID = Strip(grouped[k]))

\* C9 witness: three distinct identifiers, cap 2, two records
C9_Witness ==
    /\ pc = "done"
    /\ Cardinality(DistinctIds) = 3
    /\ max_objects = 2
    /\ Len(results) = 2
    /\ lookups = 2

\* The image tree of the example: <base>/2019/ holds the four files a..d
ExampleTree == {[year |-> Y2019, names |-> FourFiles]}

FirstThree == <<PathJoin(Y2019, F_a), PathJoin(Y2019, F_b), PathJoin(Y2019, F_c)>>

ExampleCall == pc = "located" /\ fs = ExampleTree /\ max_images = 3

\* C8 as stated: for "AK/2019-001", the four files and cap 3 the locator
\* returns the first three files in lexicographic order.
C8_Original ==
    (ExampleCall /\ object_id = ID_SPEC) => image_paths = FirstThree

\* C8 amended: for "AK/2019-001" the locator returns the empty sequence,
\* because no slash-separated segment of the identifier is exactly four
\* digits; for "AK/2019/001", the four files and cap 3 it returns the first
\* three files in lexicographic order.
C8_ExampleLookup ==
    /\ (ExampleCall /\ object_id = ID_SPEC) => image_paths = <<>>
    /\ (ExampleCall /\ object_id = ID_A) => image_paths = FirstThree

\* C8 witness: the call of the example has returned
C8_Witness ==
    /\ ExampleCall
    /\ object_id = ID_SPEC
    /\ PrefixOf(object_id) = <<"A", "K", "-", "2", "0", "1", "9", "-", "0", "0", "1">>
    /\ image_paths = <<>>

\* The first segment of the identifier that is exactly four digits, if any
HasYear(oid) == \E k \in DOMAIN Split(oid, "/") : IsDigit(Split(oid, "/")[k]) /\ Len(Split(oid, "/")[k]) = 4

FirstYear(oid) ==
    LET segs == Split(oid, "/")
        k == CHOOSE n \in DOMAIN segs :
                /\ IsDigit(segs[n]) /\ Len(segs[n]) = 4
                /\ \A m \in 1..(n - 1) : ~(IsDigit(segs[m]) /\ Len(segs[m]) = 4)
    IN  segs[k]

\* All matching file names: in the year folder, image extension, prefix
Matching ==
    IF HasYear(object_id) /\ FolderExists(fs, FirstYear(object_id))
    THEN {f \in ListDir(fs, FirstYear(object_id)) :
            /\ StartsWith(f, PrefixOf(object_id))
            /\ \E e \in IMAGE_EXTENSIONS : EndsWith(Lower(f), e)}
    ELSE {}

\* C10: the returned sequence has at most cap paths, all in <base>/<year>,
\* every file name starts with the derived prefix and has an image extension,
\* and the sequence is the first min(cap, n) elements of the sorted list of
\* all n matching names (sorted before truncation).
C10_SortedCappedMatches ==
    pc = "located" =>
        /\ Len(image_paths) <= max_images
        /\ Len(image_paths) = Min(max_images, Cardinality(Matching))
        /\ \A k \in DOMAIN image_paths :
            /\ image_paths[k].base = base_folder
            /\ image_paths[k].year = FirstYear(object_id)
            /\ image_paths[k].name \in Matching
        /\ \A a, b \in DOMAIN image_paths :
            a < b => StrLess(image_paths[a].name, image_paths[b].name)
        /\ \A f \in Matching :
            (\A k \in DOMAIN image_paths : image_paths[k].name # f) =>
                \A k \in DOMAIN image_paths : StrLess(image_paths[k].name, f)

\* C10 witness: more matches than the cap, upper-case extension included,
\* so that truncation drops the largest names
C10_Witness ==
    /\ pc = "located"
    /\ object_id = ID_WS
    /\ max_images = 2
    /\ Cardinality(Matching) = 4
    /\ F_UP \in Matching
    /\ Len(image_paths) = 2
    /\ image_paths[1].name = F_UP

\* The number of rate-limit responses received in the current call
RateLimitCount == Cardinality({k \in DOMAIN responses : responses[k] = "rate_limit"})

RECURSIVE Sum(_)
Sum(seq) == IF seq = <<>> THEN 0 ELSE Head(seq) + Sum(Tail(seq))

\* C13: every rate-limit response is followed by its wait, the one of the
\* third and last attempt included: with three rate-limit responses the call
\* waits 5, 10 and 15 (30 in total) and only then returns the "aborted"
\* string; the number of waits is the number of rate-limit responses.
C13_WaitAfterLastAttempt ==
    /\ (pc \in {"request", "exhausted", "gen_return", "except"} =>
            Len(waits) = RateLimitCount)
    /\ (pc = "exhausted" =>
            /\ RateLimitCount = 3
            /\ waits = <<5, 10, 15>>
            /\ gen_result # ERR_ABORTED)
    /\ (gen_result = ERR_ABORTED =>
            /\ pc = "gen_return"
            /\ RateLimitCount = 3
            /\ waits = <<5, 10, 15>>
            /\ Sum(waits) = 30)

\* C13 witness: the call has returned "aborted" after the third wait
C13_Witness ==
    /\ pc = "gen_return"
    /\ gen_result = ERR_ABORTED
    /\ RateLimitCount = 3
    /\ waits = <<5, 10, 15>>

\* The fields in their fixed order, each with its value and its two labels
FieldTable ==
    << [value |-> args.manufacturer, de |-> DE_MANUFACTURER, en |-> EN_MANUFACTURER],
       [value |-> args.material, de |-> DE_MATERIAL, en |-> EN_MATERIAL],
       [value |-> args.dimensions, de |-> DE_DIMENSIONS, en |-> EN_DIMENSIONS],
       [value |-> args.year, de |-> DE_YEAR, en |-> EN_YEAR] >>

\* The sentence for the fields k..4: the clause of field k, if present, then
\* "; " and the rest, if the rest is not empty
RECURSIVE SentenceFrom(_, _)
SentenceFrom(k, lang) ==
    IF k > 4 THEN <<>>
    ELSE LET rest == SentenceFrom(k + 1, lang)
             f == FieldTable[k]
         IN  IF f.value = EMPTY_CELL THEN rest
             ELSE IF rest = <<>> THEN f[lang] \o f.value
             ELSE f[lang] \o f.value \o SEPARATOR \o rest

EXAMPLE_DE == <<"H", "e", "r", "s", "t", "e", "l", "l", "e", "r", ":", " ", "A", "c", "m", "e", ";", " ", "M", "a", "ß", "e", ":", " ", "1", "0", "x", "2", "0", "c", "m">>
EXAMPLE_EN == <<"M", "a", "n", "u", "f", "a", "c", "t", "u", "r", "e", "r", ":", " ", "A", "c", "m", "e", ";", " ", "D", "i", "m", "e", "n", "s", "i", "o", "n", "s", ":", " ", "1", "0", "x", "2", "0", "c", "m">>

\* C11: for every combination of present and missing manufacturer, material,
\* dimensions and year, each of the two sentences holds one labeled clause
\* per present field, in that order, value verbatim, joined by "; ", and no
\* clause for a missing field; all missing gives two empty strings; Acme and
\* 10x20cm alone give the two example sentences.
C11_ListSentences ==
    pc = "sentences_built" =>
        /\ ret.de = SentenceFrom(1, "de")
        /\ ret.en = SentenceFrom(1, "en")
        /\ ((\A k \in 1..4 : FieldTable[k].value = EMPTY_CELL) =>
                ret.de = <<>> /\ ret.en = <<>>)
        /\ (args = [manufacturer |-> V_ACME, material |-> EMPTY_CELL,
                    dimensions |-> V_DIMS, year |-> EMPTY_CELL] =>
                ret.de = EXAMPLE_DE /\ ret.en = EXAMPLE_EN)

\* C11 witness: the example call has returned its two sentences
C11_Witness ==
    /\ pc = "sentences_built"
    /\ args = [manufacturer |-> V_ACME, material |-> EMPTY_CELL,
               dimensions |-> V_DIMS, year |-> EMPTY_CELL]
    /\ ret = [de |-> EXAMPLE_DE, en |-> EXAMPLE_EN]

\* The spellings of "nan" in any mix of cases
NanSpellings ==
    {<<a, b, c>> : a \in {"n", "N"}, b \in {"a", "A"}, c \in {"n", "N"}}

\* The input is absent: None, the NaN of an empty cell, or not printable
Absent == args.kind \in {"none", "float_nan", "unprintable"}

\* The input's text is empty or consists of spaces only
Blank == \A k \in DOMAIN args.text : args.text[k] = " "

\* t is the input's text without the spaces around it
IsTrimmedText(t) ==
    /\ t # <<>>
    /\ t[1] # " "
    /\ t[Len(t)] # " "
    /\ \E a, b \in 0..Len(args.text) : args.text = Pad(a) \o t \o Pad(b)

Called == pc \in {"normalized", "renormalized"}

\* C12 as stated: the sentinel for an input that is absent, empty,
\* whitespace-only or case-insensitively equal to "nan", the trimmed string
\* for every other input, and safe_value(safe_value(x)) = safe_value(x).
C12_Original ==
    Called =>
        /\ ((Absent \/ Blank \/ args.text \in NanSpellings) => ret[1] = EMPTY_CELL)
        /\ (~(Absent \/ Blank \/ args.text \in NanSpellings) => IsTrimmedText(ret[1]))
        /\ (pc = "renormalized" => ret[2] = ret[1])

\* C12 amended: the sentinel for an input that is absent, empty,
\* whitespace-only or whose trimmed string form is case-insensitively equal
\* to "nan" (so " NaN " gives the sentinel too), the trimmed string for
\* every other input, and safe_value(safe_value(x)) = safe_value(x), also
\* when x is the sentinel.
C12_Normalizer ==
    Called =>
        LET nanLike == \E t \in NanSpellings : IsTrimmedText(t)
            missing == Absent \/ Blank \/ nanLike
        IN  /\ (missing => ret[1] = EMPTY_CELL)
            /\ (~missing => IsTrimmedText(ret[1]))
            /\ (pc = "renormalized" => ret[2] = ret[1])

\* C12 witness: " NaN " gives the sentinel, and the sentinel normalizes to itself
C12_Witness ==
    /\ pc = "renormalized"
    /\ args = StrValue(Pad(1) \o C_NaN \o Pad(1))
    /\ ret = <<EMPTY_CELL, EMPTY_CELL>>

====
